---------------------------- MODULE Spec2Model ----------------------------
(***************************************************************************)
(* A model of src/python_mfcc.py (class PythonMFCC): the mel filter bank   *)
(* (getCenterFrequency, getMagnitudeFactor, getFilterParameter), the       *)
(* normalization factor and the step-by-step execution of getCoefficient   *)
(* by several callers that share one spectral frame.                       *)
(*                                                                         *)
(* Floating point values are modelled in fixed point, rounded down:        *)
(*   frequencies                in mHz      (1/1000 Hz),                   *)
(*   magnitude / filter weights in 10^-6,                                  *)
(*   ramp fractions, logarithms, cosines, normalization, sums, results     *)
(*                              in 10^-3.                                  *)
(* Python's signed zero is not distinguished: 0.0 and -0.0 are both 0.     *)
(***************************************************************************)
EXTENDS Integers, Sequences, FiniteSets

(***************************************************************************)
(* Bounds of the model.                                                    *)
(***************************************************************************)
MaxFilters == 2      \* numFilters ranges over 1..MaxFilters in Spec
MaxBins == 3         \* the spectral frame has 1..MaxBins bins in Spec
MaxBand == 62        \* filter bands probed in SpecFn: 0..MaxBand
MaxProbeBin == 3     \* frequency bins probed in SpecFn: 0..MaxProbeBin

(***************************************************************************)
(* Constants of the program.                                               *)
(***************************************************************************)
LinearBands == 14          \* bands 1..14 are spaced linearly
MagnitudeBands == 48       \* bands 15..48 have a bandwidth-dependent factor

Threads == {1, 2}
Rates == {200, 16000}                  \* samplingRate values used by callers
Magnitudes == {0, 3}                   \* values of a spectral bin
ProbeRates == {1, 200, 8000, 16000, 44100}
ProbeBinSizes == {1, 2, 3, 32}

Abs(x) == IF x < 0 THEN -x ELSE x

(***************************************************************************)
(* Fixed point with 7 decimals (10000000 stands for 1.0): the product of   *)
(* two such numbers, by halves of 4 digits so that no intermediate product *)
(* leaves 32 bits, and pow by repeated squaring.                           *)
(***************************************************************************)
MulFix(a, b) ==
    LET ah == a \div 10000
        al == a % 10000
        bh == b \div 10000
        bl == b % 10000
    IN  ah * bh * 10 + (ah * bl + al * bh) \div 1000 + (al * bl) \div 10000000

RECURSIVE PowFix(_, _)
PowFix(base, n) ==
    IF n = 0 THEN 10000000
    ELSE LET half == PowFix(base, n \div 2)
             square == MulFix(half, half)
         IN  IF n % 2 = 0 THEN square ELSE MulFix(square, base)

\* pow(1.0711703, exponent) of line 20, with 7 decimals; a negative exponent
\* is the power of 1 / 1.0711703 = 0.9335584.
Pow(exponent) ==
    IF exponent >= 0 THEN PowFix(10711703, exponent)
    ELSE PowFix(9335584, -exponent)

\* centerFrequency *= 1073.4 of line 21: the result in mHz, 1073.4 Hz being
\* 1073400 mHz.
TimesBase(power) == MulFix(power, 1073400)

\* A plausible slip: the exponent's sign reversed (14.0 - filterBand).
getCenterFrequencyFlipped(filterBand) ==
    IF filterBand = 0 THEN 0
    ELSE IF filterBand >= 1 /\ filterBand <= LinearBands
         THEN (200000 * filterBand) \div 3
    ELSE TimesBase(Pow(LinearBands - filterBand))

\* getCenterFrequency, in mHz.
getCenterFrequency(filterBand) ==
    IF filterBand = 0 THEN 0
    ELSE IF filterBand >= 1 /\ filterBand <= LinearBands
         THEN (200000 * filterBand) \div 3
    ELSE TimesBase(Pow(filterBand - LinearBands))

\* A plausible slip: the same neighbour on both sides of the subtraction.
MagnitudeDivisorSame(filterBand) ==
    getCenterFrequency(filterBand + 1) - getCenterFrequency(filterBand + 1)

\* The divisor of line 33, in mHz.
MagnitudeDivisor(filterBand) ==
    getCenterFrequency(filterBand + 1) - getCenterFrequency(filterBand - 1)

\* Line 33 divides: whether getMagnitudeFactor executes a division.
MagnitudeDivides(filterBand) ==
    filterBand >= LinearBands + 1 /\ filterBand <= MagnitudeBands

\* getMagnitudeFactor raises ZeroDivisionError.
MagnitudeRaises(filterBand) ==
    MagnitudeDivides(filterBand) /\ MagnitudeDivisor(filterBand) = 0

\* getMagnitudeFactor, in 10^-6 (2.0 / Hz = 2 * 10^9 / mHz); 0 stands for
\* "no value" when the call raises.
getMagnitudeFactor(filterBand) ==
    IF filterBand >= 1 /\ filterBand <= LinearBands THEN 15000
    ELSE IF MagnitudeDivides(filterBand)
         THEN IF MagnitudeDivisor(filterBand) = 0 THEN 0
              ELSE IF MagnitudeDivisor(filterBand) < 0
                   THEN -(2000000000 \div (-MagnitudeDivisor(filterBand)))
                   ELSE 2000000000 \div MagnitudeDivisor(filterBand)
    ELSE 0

\* boundary of line 42, in mHz.
Boundary(samplingRate, binSize, frequencyBand) ==
    (frequencyBand * samplingRate * 1000) \div binSize

\* The band below, which the name of the variable suggests.
prevCenterFrequencyBelow(filterBand) == getCenterFrequency(filterBand - 1)

prevCenterFrequency(filterBand) == getCenterFrequency(filterBand + 1)
thisCenterFrequency(filterBand) == getCenterFrequency(filterBand)
nextCenterFrequency(filterBand) == getCenterFrequency(filterBand + 1)

(***************************************************************************)
(* Which arm of the if/elif chain of lines 47-56 is taken: 1 and 4 assign  *)
(* 0.0, 2 is the rising ramp, 3 the falling ramp, 0 is the fall-through.   *)
(***************************************************************************)
FilterBranch(samplingRate, binSize, frequencyBand, filterBand) ==
    LET boundary == Boundary(samplingRate, binSize, frequencyBand)
        prev == prevCenterFrequency(filterBand)
        this == thisCenterFrequency(filterBand)
        next == nextCenterFrequency(filterBand)
    IN  IF boundary >= 0 /\ boundary < prev THEN 1
        ELSE IF boundary >= prev /\ boundary < this THEN 2
        ELSE IF boundary >= this /\ boundary < next THEN 3
        ELSE IF boundary >= next /\ boundary < samplingRate * 1000 THEN 4
        ELSE 0

\* The divisor of line 50 (arm 2) or line 53 (arm 3), in mHz.
FilterDivisor(branch, filterBand) ==
    IF branch = 2
    THEN thisCenterFrequency(filterBand) - prevCenterFrequency(filterBand)
    ELSE thisCenterFrequency(filterBand) - nextCenterFrequency(filterBand)

\* The dividend of line 50 (arm 2) or line 53 (arm 3), in mHz.
FilterDividend(branch, boundary, filterBand) ==
    IF branch = 2
    THEN boundary - prevCenterFrequency(filterBand)
    ELSE boundary - nextCenterFrequency(filterBand)

\* dividend / divisor in 10^-3, for a divisor that is not 0.
Ramp(dividend, divisor) ==
    IF divisor < 0 THEN ((-dividend) * 1000) \div (-divisor)
    ELSE (dividend * 1000) \div divisor

\* getFilterParameter calls getMagnitudeFactor (lines 51 and 54).
FilterCallsMagnitude(samplingRate, binSize, frequencyBand, filterBand) ==
    FilterBranch(samplingRate, binSize, frequencyBand, filterBand) \in {2, 3}

\* getFilterParameter raises ZeroDivisionError.
FilterRaises(samplingRate, binSize, frequencyBand, filterBand) ==
    LET branch == FilterBranch(samplingRate, binSize, frequencyBand, filterBand)
    IN  /\ branch \in {2, 3}
        /\ \/ FilterDivisor(branch, filterBand) = 0
           \/ MagnitudeRaises(filterBand)

\* getFilterParameter, in 10^-6; 0 stands for "no value" when it raises.
getFilterParameter(samplingRate, binSize, frequencyBand, filterBand) ==
    LET branch == FilterBranch(samplingRate, binSize, frequencyBand, filterBand)
        boundary == Boundary(samplingRate, binSize, frequencyBand)
    IN  IF branch \in {2, 3}
             /\ ~FilterRaises(samplingRate, binSize, frequencyBand, filterBand)
        THEN (Ramp(FilterDividend(branch, boundary, filterBand),
                   FilterDivisor(branch, filterBand))
                * getMagnitudeFactor(filterBand)) \div 1000
        ELSE 0

\* math.sqrt on naturals, rounded down.
ISqrt(x) == CHOOSE r \in 0..1500 : r * r <= x /\ (r + 1) * (r + 1) > x

\* getNormalizationFactor, in 10^-3: sqrt(c / numFilters) = sqrt(c * 10^6 / numFilters) / 1000.
getNormalizationFactor(numFilters, m) ==
    IF m = 0 THEN ISqrt(1000000 \div numFilters)
    ELSE ISqrt(2000000 \div numFilters)


\* math.log on a positive value given in 10^-6, result in 10^-3:
\* ln(x * 10^-6) = log2(x) * 0.693 - 13.816, log2 interpolated linearly
\* between powers of two.
RECURSIVE FloorLog2(_)
FloorLog2(x) == IF x < 2 THEN 0 ELSE 1 + FloorLog2(x \div 2)

Log2Milli(x) ==
    LET e == FloorLog2(x)
        p == 2 ^ e
    IN  e * 1000 + (IF p < 1000000 THEN ((x - p) * 1000) \div p
                    ELSE (x - p) \div (p \div 1000))

LnMilli(x) == (Log2Milli(x) * 693) \div 1000 - 13816

\* math.cos(((m * math.pi) / numFilters) * (l - 0.5)) in 10^-3.  The angle is
\* pi * a / d with a = m * (2l - 1) and d = 2 * numFilters; it is reduced to
\* [0, pi/2] and cos(pi * y) taken as (1 - 4y^2) / (1 + y^2) (Bhaskara).
CosMilli(m, numFilters, l) ==
    LET d == 2 * numFilters
        a0 == (m * (2 * l - 1)) % (2 * d)
        a1 == IF a0 > d THEN 2 * d - a0 ELSE a0
        neg == 2 * a1 > d
        a == IF neg THEN d - a1 ELSE a1
        c == ((d * d - 4 * a * a) * 1000) \div (d * d + a * a)
    IN  IF neg THEN -c ELSE c

\* A plausible slip: m = numFilters let through.
IsSentinelStrict(m, numFilters) == m > numFilters

\* The guard of line 92.
IsSentinel(m, numFilters) == m >= numFilters

\* range(1, numFilters + 1) of line 96.
BandRange(numFilters) == 1..numFilters

\* A plausible slip (or "fix"): the last bin included.
BinRangeFull(binSize) == 0..(binSize - 1)

\* range(0, binSize - 1) of line 98.
BinRange(binSize) == 0..(binSize - 2)

\* A plausible slip: log taken of a zero energy as well.
LogAppliesAtZero(innerSum) == innerSum >= 0

\* The guard of line 100.
LogApplies(innerSum) == innerSum > 0

\* A plausible slip: + for *.
ScaleAdd(result, outerSum) == result + outerSum

\* result * outerSum of line 104, both in 10^-3.
Scale(result, outerSum) == (result * outerSum) \div 1000

(***************************************************************************)
(* The state.  spectralData is the caller's frame, shared by every call    *)
(* (an ndarray is passed by reference), and samplingRate the rate it was   *)
(* sampled at, passed to every call.  Each thread runs one call of         *)
(* getCoefficient at a time; numFilters, binSize and m are the call's      *)
(* other arguments, result .. k its locals, and value what the call        *)
(* returned.  normalized,                                                  *)
(* reads and logBands record what the call has done so far: whether        *)
(* getNormalizationFactor was called, the <<l, k>> of every spectralData   *)
(* read in order, and the bands whose energy went through math.log.        *)
(* scenario names the callers' workload; probe holds the last direct       *)
(* evaluation of one of the filter-bank functions.                         *)
(***************************************************************************)
VARIABLES spectralData, samplingRate, scenario, pc,
          numFilters, binSize, m,
          result, outerSum, innerSum, l, k, value,
          normalized, reads, logBands, probe

args == <<numFilters, binSize, m>>
locals == <<result, outerSum, innerSum, l, k>>
history == <<normalized, reads, logBands>>
vars == <<spectralData, samplingRate, scenario, pc, args, locals, value, history, probe>>

\* Every frame of 1..MaxBins bins.
Frames == UNION {[1..n -> Magnitudes] : n \in 1..MaxBins}

\* The fixture of the end-to-end scenario: 32 bins, all 1.0.
FixtureFrame == [i \in 1..32 |-> 1]

\* The threads that call, and the arguments they pass, per workload.
Callers(s) == IF s = "fixture" THEN {1} ELSE Threads
FilterChoices(s) == IF s = "fixture" THEN {48} ELSE 1..MaxFilters
CoefficientChoices(s, nf) ==
    IF s = "fixture" THEN {0, 1, nf, nf + 5} ELSE (0..nf) \cup {nf + 5}

NoProbe == [fn |-> "none", pending |-> FALSE]

InitCalls ==
    /\ pc = [t \in Threads |-> "idle"]
    /\ numFilters = [t \in Threads |-> 0]
    /\ binSize = [t \in Threads |-> 0]
    /\ m = [t \in Threads |-> 0]
    /\ result = [t \in Threads |-> 0]
    /\ outerSum = [t \in Threads |-> 0]
    /\ innerSum = [t \in Threads |-> 0]
    /\ l = [t \in Threads |-> 0]
    /\ k = [t \in Threads |-> 0]
    /\ value = [t \in Threads |-> 0]
    /\ normalized = [t \in Threads |-> FALSE]
    /\ reads = [t \in Threads |-> <<>>]
    /\ logBands = [t \in Threads |-> {}]

Init ==
    /\ scenario = "mixed"
    /\ spectralData \in Frames
    /\ samplingRate \in Rates
    /\ InitCalls
    /\ probe = NoProbe

InitFixture ==
    /\ scenario = "fixture"
    /\ spectralData = FixtureFrame
    /\ samplingRate = 16000
    /\ InitCalls
    /\ probe = NoProbe

(***************************************************************************)
(* getCoefficient, one action per step.                                    *)
(***************************************************************************)
\* The call: arguments bound, lines 88-90.  binSize is the frame's length.
Call(t) ==
    /\ t \in Callers(scenario)
    /\ pc[t] \in {"idle", "returned"}
    /\ \E nf \in FilterChoices(scenario) :
         \E mm \in CoefficientChoices(scenario, nf) :
            /\ numFilters' = [numFilters EXCEPT ![t] = nf]
            /\ m' = [m EXCEPT ![t] = mm]
    /\ binSize' = [binSize EXCEPT ![t] = Len(spectralData)]
    /\ result' = [result EXCEPT ![t] = 0]
    /\ outerSum' = [outerSum EXCEPT ![t] = 0]
    /\ innerSum' = [innerSum EXCEPT ![t] = 0]
    /\ l' = [l EXCEPT ![t] = 0]
    /\ k' = [k EXCEPT ![t] = 0]
    /\ normalized' = [normalized EXCEPT ![t] = FALSE]
    /\ reads' = [reads EXCEPT ![t] = <<>>]
    /\ logBands' = [logBands EXCEPT ![t] = {}]
    /\ pc' = [pc EXCEPT ![t] = "entered"]
    /\ UNCHANGED <<spectralData, samplingRate, scenario, value, probe>>

\* A plausible slip: result kept on the shared object and returned here, so
\* that the sentinel sees whatever some call last stored in it.
SentinelStale(t) ==
    /\ pc[t] = "entered"
    /\ IsSentinel(m[t], numFilters[t])
    /\ \E u \in Threads : value' = [value EXCEPT ![t] = result[u]]
    /\ pc' = [pc EXCEPT ![t] = "returned"]
    /\ UNCHANGED <<spectralData, samplingRate, scenario, args, locals, history, probe>>

\* Lines 92-94: return 0.0.
Sentinel(t) ==
    /\ pc[t] = "entered"
    /\ IsSentinel(m[t], numFilters[t])
    /\ value' = [value EXCEPT ![t] = 0]
    /\ pc' = [pc EXCEPT ![t] = "returned"]
    /\ UNCHANGED <<spectralData, samplingRate, scenario, args, locals, history, probe>>

\* Line 95.
Normalize(t) ==
    /\ pc[t] = "entered"
    /\ ~IsSentinel(m[t], numFilters[t])
    /\ result' = [result EXCEPT ![t] = getNormalizationFactor(numFilters[t], m[t])]
    /\ normalized' = [normalized EXCEPT ![t] = TRUE]
    /\ pc' = [pc EXCEPT ![t] = "band"]
    /\ UNCHANGED <<spectralData, samplingRate, scenario, args, outerSum, innerSum, l, k,
                   value, reads, logBands, probe>>

\* Lines 96-97: the next band, innerSum reset.  l is the band in progress (0
\* before the first); k is the next bin of the inner range.
BandStart(t) ==
    /\ pc[t] = "band"
    /\ l[t] + 1 \in BandRange(numFilters[t])
    /\ l' = [l EXCEPT ![t] = l[t] + 1]
    /\ innerSum' = [innerSum EXCEPT ![t] = 0]
    /\ k' = [k EXCEPT ![t] = 0]
    /\ pc' = [pc EXCEPT ![t] = "bin"]
    /\ UNCHANGED <<spectralData, samplingRate, scenario, args, result, outerSum, value,
                   history, probe>>

\* A plausible slip: the magnitude taken in place, in the caller's frame.
BinInPlace(t) ==
    /\ pc[t] = "bin"
    /\ k[t] \in BinRange(binSize[t])
    /\ LET fp == getFilterParameter(samplingRate, binSize[t], k[t], l[t])
           mag == Abs(spectralData[k[t] + 1] * fp)
       IN  /\ spectralData' = [spectralData EXCEPT ![k[t] + 1] = mag]
           /\ innerSum' = [innerSum EXCEPT ![t] = innerSum[t] + mag]
    /\ reads' = [reads EXCEPT ![t] = Append(reads[t], <<l[t], k[t]>>)]
    /\ k' = [k EXCEPT ![t] = k[t] + 1]
    /\ UNCHANGED <<samplingRate, scenario, pc, args, result, outerSum, l, value,
                   normalized, logBands, probe>>

\* Lines 98-99: one bin.  spectralData[k] is element k + 1 of the sequence.
\* A ZeroDivisionError in getFilterParameter ends the call.
Bin(t) ==
    /\ pc[t] = "bin"
    /\ k[t] \in BinRange(binSize[t])
    /\ reads' = [reads EXCEPT ![t] = Append(reads[t], <<l[t], k[t]>>)]
    /\ IF FilterRaises(samplingRate, binSize[t], k[t], l[t])
       THEN /\ pc' = [pc EXCEPT ![t] = "raised"]
            /\ UNCHANGED <<innerSum, k>>
       ELSE /\ innerSum' = [innerSum EXCEPT ![t] = innerSum[t] +
                   Abs(spectralData[k[t] + 1]
                       * getFilterParameter(samplingRate, binSize[t], k[t], l[t]))]
            /\ k' = [k EXCEPT ![t] = k[t] + 1]
            /\ pc' = pc
    /\ UNCHANGED <<spectralData, samplingRate, scenario, args, result, outerSum, l, value,
                   normalized, logBands, probe>>

\* Lines 100-103, once the inner range is exhausted.  math.log of a value
\* that is not positive raises ValueError and ends the call.
BandEnd(t) ==
    /\ pc[t] = "bin"
    /\ k[t] \notin BinRange(binSize[t])
    /\ IF LogApplies(innerSum[t]) /\ innerSum[t] <= 0
       THEN /\ pc' = [pc EXCEPT ![t] = "raised"]
            /\ logBands' = [logBands EXCEPT ![t] = logBands[t] \cup {l[t]}]
            /\ UNCHANGED <<innerSum, outerSum>>
       ELSE LET logged == IF LogApplies(innerSum[t]) THEN LnMilli(innerSum[t])
                          ELSE innerSum[t]
                term == (logged * CosMilli(m[t], numFilters[t], l[t])) \div 1000
            IN  /\ innerSum' = [innerSum EXCEPT ![t] = term]
                /\ outerSum' = [outerSum EXCEPT ![t] = outerSum[t] + term]
                /\ logBands' = [logBands EXCEPT ![t] =
                       IF LogApplies(innerSum[t]) THEN logBands[t] \cup {l[t]}
                       ELSE logBands[t]]
                /\ pc' = [pc EXCEPT ![t] = "band"]
    /\ UNCHANGED <<spectralData, samplingRate, scenario, args, result, l, k, value,
                   normalized, reads, probe>>

\* Lines 104-105, once the band range is exhausted.
Finish(t) ==
    /\ pc[t] = "band"
    /\ l[t] + 1 \notin BandRange(numFilters[t])
    /\ result' = [result EXCEPT ![t] = Scale(result[t], outerSum[t])]
    /\ value' = [value EXCEPT ![t] = Scale(result[t], outerSum[t])]
    /\ pc' = [pc EXCEPT ![t] = "returned"]
    /\ UNCHANGED <<spectralData, samplingRate, scenario, args, outerSum, innerSum, l, k,
                   history, probe>>

Next ==
    \E t \in Threads :
        \/ Call(t)
        \/ Sentinel(t)
        \/ Normalize(t)
        \/ BandStart(t)
        \/ Bin(t)
        \/ BandEnd(t)
        \/ Finish(t)

\* Two threads computing coefficients of one frame, any interleaving.
Spec == Init /\ [][Next]_vars

\* One caller on the fixture: samplingRate 16000, 32 bins of 1.0, 48 filters.
SpecFixture == InitFixture /\ [][Next]_vars

(***************************************************************************)
(* Direct evaluations of the filter-bank functions on arguments drawn from *)
(* bounded sets: probe starts as a pending request, and the evaluation     *)
(* adds the arm taken, the divisors of the divisions executed and the      *)
(* outcome.                                                                *)
(***************************************************************************)
ProbeRequests ==
    {[fn |-> "getCenterFrequency", pending |-> TRUE, l1 |-> l1, l2 |-> l2] :
        l1 \in 0..MaxBand, l2 \in 0..MaxBand}
    \cup {[fn |-> "getMagnitudeFactor", pending |-> TRUE, filterBand |-> filterBand] :
            filterBand \in 0..MaxBand}
    \cup {[fn |-> "getFilterParameter", pending |-> TRUE, samplingRate |-> sr,
           binSize |-> bs, frequencyBand |-> frequencyBand, filterBand |-> filterBand] :
            sr \in ProbeRates, bs \in ProbeBinSizes,
            frequencyBand \in 0..MaxProbeBin, filterBand \in 0..MaxBand}

InitFn ==
    /\ scenario = "probe"
    /\ spectralData = <<0>>
    /\ samplingRate = 0
    /\ InitCalls
    /\ probe \in ProbeRequests

ProbeCenterFrequency ==
    /\ probe.fn = "getCenterFrequency" /\ probe.pending
    /\ probe' = [fn |-> probe.fn, pending |-> FALSE,
                 l1 |-> probe.l1, l2 |-> probe.l2,
                 f1 |-> getCenterFrequency(probe.l1),
                 f2 |-> getCenterFrequency(probe.l2)]
    /\ UNCHANGED <<spectralData, samplingRate, scenario, pc, args, locals, value, history>>

ProbeMagnitudeFactor ==
    /\ probe.fn = "getMagnitudeFactor" /\ probe.pending
    /\ probe' = [fn |-> probe.fn, pending |-> FALSE,
                 filterBand |-> probe.filterBand,
                 divisors |-> IF MagnitudeDivides(probe.filterBand)
                              THEN {MagnitudeDivisor(probe.filterBand)} ELSE {},
                 raised |-> MagnitudeRaises(probe.filterBand),
                 out |-> getMagnitudeFactor(probe.filterBand)]
    /\ UNCHANGED <<spectralData, samplingRate, scenario, pc, args, locals, value, history>>

ProbeFilterParameter ==
    /\ probe.fn = "getFilterParameter" /\ probe.pending
    /\ LET sr == probe.samplingRate
           bs == probe.binSize
           frequencyBand == probe.frequencyBand
           filterBand == probe.filterBand
           branch == FilterBranch(sr, bs, frequencyBand, filterBand)
       IN  probe' = [fn |-> probe.fn, pending |-> FALSE,
                     samplingRate |-> sr, binSize |-> bs,
                     frequencyBand |-> frequencyBand, filterBand |-> filterBand,
                     boundary |-> Boundary(sr, bs, frequencyBand),
                     prev |-> prevCenterFrequency(filterBand),
                     this |-> thisCenterFrequency(filterBand),
                     next |-> nextCenterFrequency(filterBand),
                     branch |-> branch,
                     divisors |->
                        IF branch \in {2, 3}
                        THEN {FilterDivisor(branch, filterBand)} \cup
                             (IF FilterDivisor(branch, filterBand) # 0
                                 /\ MagnitudeDivides(filterBand)
                              THEN {MagnitudeDivisor(filterBand)} ELSE {})
                        ELSE {},
                     calledMagnitude |->
                        FilterCallsMagnitude(sr, bs, frequencyBand, filterBand)
                        /\ FilterDivisor(branch, filterBand) # 0,
                     raised |-> FilterRaises(sr, bs, frequencyBand, filterBand),
                     out |-> getFilterParameter(sr, bs, frequencyBand, filterBand)]
    /\ UNCHANGED <<spectralData, samplingRate, scenario, pc, args, locals, value, history>>

NextFn ==
    \/ ProbeCenterFrequency
    \/ ProbeMagnitudeFactor
    \/ ProbeFilterParameter

\* The filter-bank functions applied to every argument within the bounds.
SpecFn == InitFn /\ [][NextFn]_vars

(***************************************************************************)
(* getCoefficient as a function of its arguments: what lines 88-105        *)
(* compute when nothing else runs.                                         *)
(***************************************************************************)
RECURSIVE SumBins(_, _, _, _, _)
SumBins(data, sr, bs, band, n) ==
    IF n <= 0 THEN 0
    ELSE SumBins(data, sr, bs, band, n - 1)
           + Abs(data[n] * getFilterParameter(sr, bs, n - 1, band))

\* innerSum of a band before the logarithm: bins 0 .. binSize - 2.
BandEnergy(data, sr, bs, band) == SumBins(data, sr, bs, band, bs - 1)

\* ln of a positive energy, 0.0 for an energy of 0.
ClampLn(energy) == IF energy > 0 THEN LnMilli(energy) ELSE 0

RECURSIVE SumBands(_, _, _, _, _, _)
SumBands(data, sr, nf, bs, mm, n) ==
    IF n <= 0 THEN 0
    ELSE SumBands(data, sr, nf, bs, mm, n - 1)
           + (ClampLn(BandEnergy(data, sr, bs, n)) * CosMilli(mm, nf, n)) \div 1000

Alone(data, sr, nf, bs, mm) ==
    IF mm >= nf THEN 0
    ELSE (getNormalizationFactor(nf, mm) * SumBands(data, sr, nf, bs, mm, nf)) \div 1000

Valid(t) == m[t] < numFilters[t]
Returned(t) == pc[t] = "returned"
AllZero == \A i \in 1..Len(spectralData) : spectralData[i] = 0

(***************************************************************************)
(* C1: a call with m >= numFilters returns exactly 0.0, and returns before *)
(* the normalization factor is computed, before any filter band is entered *)
(* and before any spectral bin is read, whatever the frame and parameters. *)
(***************************************************************************)
C1_SentinelReturnsZero ==
    \A t \in Threads :
        m[t] >= numFilters[t] /\ pc[t] # "idle" =>
            /\ pc[t] \in {"entered", "returned"}
            /\ ~normalized[t]
            /\ reads[t] = <<>>
            /\ l[t] = 0
            /\ logBands[t] = {}
            /\ (Returned(t) => value[t] = 0)

\* A call with m = numFilters + 5 on a frame that has energy has returned.
C1_Witness ==
    \E t \in Threads :
        /\ Returned(t)
        /\ m[t] = numFilters[t] + 5
        /\ ~AllZero

(***************************************************************************)
(* C2: on a frame whose bins are all 0.0, every band's innerSum stays 0,   *)
(* math.log is never applied (no band is logged and no call raises), the   *)
(* accumulated outerSum is 0, and a call with m < numFilters returns 0.0.  *)
(***************************************************************************)
C2_ZeroEnergy ==
    AllZero =>
        \A t \in Threads :
            /\ innerSum[t] = 0
            /\ outerSum[t] = 0
            /\ logBands[t] = {}
            /\ pc[t] # "raised"
            /\ (Returned(t) /\ Valid(t) => value[t] = 0)

\* A valid call on an all-zero frame has read bins and returned.
C2_Witness ==
    /\ AllZero
    /\ \E t \in Threads :
         Returned(t) /\ Valid(t) /\ Len(reads[t]) = numFilters[t] * (binSize[t] - 1)
                     /\ Len(reads[t]) > 1

(***************************************************************************)
(* C10: for every frame (zero or not), every per-band innerSum is 0, the   *)
(* logarithm branch is never taken, and a call with m < numFilters returns *)
(* 0.0: the same value as the m >= numFilters sentinel.                    *)
(***************************************************************************)
C10_AlwaysZero ==
    \A t \in Threads :
        /\ innerSum[t] = 0
        /\ logBands[t] = {}
        /\ (Returned(t) => value[t] = 0)
        /\ \A u \in Threads : Returned(t) /\ Returned(u) => value[t] = value[u]

\* A valid call has read a bin that is not 0 and returned.
C10_Witness ==
    \E t \in Threads :
        /\ Returned(t) /\ Valid(t)
        /\ \E i \in 1..Len(reads[t]) : spectralData[reads[t][i][2] + 1] # 0

(***************************************************************************)
(* C7: a call with m < numFilters goes through the bands 1, 2, ..,         *)
(* numFilters in order, starts each band with innerSum = 0, and in each    *)
(* band reads the bins 0 .. binSize - 2 once each, in order: read number i *)
(* is bin (i-1) mod (binSize-1) of band (i-1) div (binSize-1) + 1.  Bin    *)
(* binSize - 1 is never read, and with binSize = 1 nothing is read.        *)
(***************************************************************************)
C7_ReadOrder ==
    \A t \in Threads :
        /\ IF binSize[t] <= 1 THEN reads[t] = <<>>
           ELSE /\ Len(reads[t]) <= numFilters[t] * (binSize[t] - 1)
                /\ \A i \in 1..Len(reads[t]) :
                     reads[t][i] = << (i - 1) \div (binSize[t] - 1) + 1,
                                      (i - 1) % (binSize[t] - 1) >>
        /\ \A i \in 1..Len(reads[t]) :
             reads[t][i][2] >= 0 /\ reads[t][i][2] < Len(spectralData) - 1
        /\ (Returned(t) /\ Valid(t) =>
              /\ Len(reads[t]) = numFilters[t] * (binSize[t] - 1)
              /\ l[t] = numFilters[t])
        /\ (pc[t] = "bin" /\ k[t] = 0 => innerSum[t] = 0)
        /\ (pc[t] = "bin" =>
              Len(reads[t]) = (l[t] - 1) * (binSize[t] - 1) + k[t])

\* A call over 2 bands of a 3-bin frame has returned.
C7_Witness ==
    \E t \in Threads :
        /\ Returned(t) /\ Valid(t)
        /\ numFilters[t] = 2
        /\ reads[t] = << <<1, 0>>, <<1, 1>>, <<2, 0>>, <<2, 1>> >>

(***************************************************************************)
(* C4: two calls with identical arguments return identical results, and a  *)
(* call starts from nothing an earlier call left behind: on entry its      *)
(* locals are the constants of lines 88-90 and nothing is recorded.        *)
(***************************************************************************)
C4_Deterministic ==
    \A t \in Threads :
        /\ \A u \in Threads :
             /\ Returned(t) /\ Returned(u)
             /\ numFilters[t] = numFilters[u]
             /\ binSize[t] = binSize[u]
             /\ m[t] = m[u]
             => value[t] = value[u]
        /\ (pc[t] = "entered" =>
              /\ result[t] = 0 /\ outerSum[t] = 0 /\ innerSum[t] = 0
              /\ l[t] = 0 /\ k[t] = 0
              /\ ~normalized[t] /\ reads[t] = <<>> /\ logBands[t] = {})

\* Two calls with the same arguments, run by different threads on a frame
\* with energy, have both returned.
C4_Witness ==
    /\ Returned(1) /\ Returned(2)
    /\ Valid(1)
    /\ numFilters[1] = numFilters[2]
    /\ m[1] = m[2]
    /\ Len(reads[1]) > 0
    /\ ~AllZero

\* A step changes the arguments, locals and value of at most one call.
OnlyOneCallMoves ==
    \E t \in Threads :
        \A u \in Threads \ {t} :
            /\ pc'[u] = pc[u]
            /\ numFilters'[u] = numFilters[u]
            /\ binSize'[u] = binSize[u]
            /\ m'[u] = m[u]
            /\ result'[u] = result[u]
            /\ outerSum'[u] = outerSum[u]
            /\ innerSum'[u] = innerSum[u]
            /\ l'[u] = l[u]
            /\ k'[u] = k[u]
            /\ value'[u] = value[u]

(***************************************************************************)
(* C5: under every interleaving, a call returns the value the same call    *)
(* returns when run alone, no step changes the shared spectralData, and a  *)
(* step of one call leaves the arguments, locals and result of every other *)
(* call unchanged.                                                         *)
(***************************************************************************)
C5_NoInterference ==
    /\ [](\A t \in Threads :
            Returned(t) =>
              value[t] = Alone(spectralData, samplingRate, numFilters[t],
                               binSize[t], m[t]))
    /\ [][spectralData' = spectralData /\ OnlyOneCallMoves]_vars

\* Two calls for different coefficients of the same frame are both in their
\* inner loops.
C5_Witness ==
    /\ pc[1] = "bin" /\ pc[2] = "bin"
    /\ m[1] # m[2]
    /\ numFilters[1] = numFilters[2]
    /\ k[1] = 1 /\ k[2] = 1 /\ l[1] # l[2]
    /\ ~AllZero

\* Sums over the bands 1..n of the logarithm of the band's energy: as it
\* stands, and with 0.0 for an energy of 0.
RECURSIVE SumLn(_, _, _, _)
SumLn(data, sr, bs, n) ==
    IF n <= 0 THEN 0
    ELSE SumLn(data, sr, bs, n - 1) + LnMilli(BandEnergy(data, sr, bs, n))

RECURSIVE SumClampLn(_, _, _, _)
SumClampLn(data, sr, bs, n) ==
    IF n <= 0 THEN 0
    ELSE SumClampLn(data, sr, bs, n - 1) + ClampLn(BandEnergy(data, sr, bs, n))

FixtureCall(t) ==
    /\ scenario = "fixture"
    /\ Returned(t)
    /\ m[t] = 0

(***************************************************************************)
(* C3 as stated: in the fixture (samplingRate 16000, 32 bins of 1.0, 48    *)
(* filters, m = 0) every band 1..48 has a positive energy that goes        *)
(* through the logarithm, and the call returns sqrt(1/48) times the sum of *)
(* those logarithms.                                                       *)
(***************************************************************************)
C3_EveryBandLogged ==
    \A t \in Threads :
        FixtureCall(t) =>
            /\ \A band \in 1..48 :
                 BandEnergy(spectralData, samplingRate, binSize[t], band) > 0
            /\ logBands[t] = 1..48
            /\ value[t] = (ISqrt(1000000 \div 48)
                           * SumLn(spectralData, samplingRate, binSize[t], 48))
                          \div 1000

(***************************************************************************)
(* C3 amended: in the fixture the call returns sqrt(1/48) times the sum    *)
(* over the bands 1..48 of ln(innerSum_l) where innerSum_l > 0 and of 0.0  *)
(* where innerSum_l = 0; the bands that went through the logarithm are     *)
(* exactly those with a positive energy.                                   *)
(***************************************************************************)
C3_ClampedSum ==
    \A t \in Threads :
        FixtureCall(t) =>
            /\ value[t] = (ISqrt(1000000 \div 48)
                           * SumClampLn(spectralData, samplingRate, binSize[t], 48))
                          \div 1000
            /\ logBands[t] =
                 {band \in 1..48 :
                    BandEnergy(spectralData, samplingRate, binSize[t], band) > 0}

\* The fixture call has gone through its 48 bands of 31 bins and returned.
C3_Witness ==
    \E t \in Threads :
        /\ FixtureCall(t)
        /\ numFilters[t] = 48 /\ samplingRate = 16000 /\ binSize[t] = 32
        /\ Len(reads[t]) = 48 * 31
        /\ \A i \in 1..32 : spectralData[i] = 1

(***************************************************************************)
(* C6: getCenterFrequency is non-decreasing on 0..MaxBand: for l1 < l2 the *)
(* centre of l1 is at most the centre of l2, across 0 -> 1 (0 to 200/3)    *)
(* and 14 -> 15 (200 * 14 / 3 to 1073.4 * 1.0711703) as well.              *)
(***************************************************************************)
C6_Monotone ==
    probe.fn = "getCenterFrequency" /\ ~probe.pending =>
        /\ (probe.l1 < probe.l2 => probe.f1 <= probe.f2)
        /\ (probe.l1 = 0 => probe.f1 = 0)
        /\ (probe.l1 = 1 => probe.f1 = 200000 \div 3)
        /\ (probe.l1 = 15 => probe.f1 = MulFix(10711703, 1073400))

\* The last linear band against the first exponential one.
C6_Witness ==
    /\ probe.fn = "getCenterFrequency" /\ ~probe.pending
    /\ probe.l1 = 14 /\ probe.l2 = 15
    /\ probe.f1 < probe.f2

(***************************************************************************)
(* C8: for a filter band in 1..48, any bin and positive samplingRate and   *)
(* binSize, no division with a zero divisor is executed: not by            *)
(* getMagnitudeFactor (divisor: centre of l+1 minus centre of l-1), not by *)
(* getFilterParameter, whose two divisors (this - prev, this - next) are   *)
(* not zero either.                                                        *)
(***************************************************************************)
C8_NoZeroDivisor ==
    /\ (probe.fn = "getMagnitudeFactor" /\ ~probe.pending /\ probe.filterBand \in 1..48 =>
          ~probe.raised /\ 0 \notin probe.divisors)
    /\ (probe.fn = "getFilterParameter" /\ ~probe.pending /\ probe.filterBand \in 1..48 =>
          /\ ~probe.raised /\ 0 \notin probe.divisors
          /\ probe.this - probe.prev # 0
          /\ probe.this - probe.next # 0
          /\ ~MagnitudeRaises(probe.filterBand))

\* getMagnitudeFactor has divided for band 48.
C8_Witness ==
    /\ probe.fn = "getMagnitudeFactor" /\ ~probe.pending
    /\ probe.filterBand = 48
    /\ probe.divisors # {}
    /\ probe.out > 0

(***************************************************************************)
(* C9: prev and next are the same centre, above the band's own centre, so  *)
(* neither ramp arm is taken: for every band >= 0, bin >= 0 and positive   *)
(* samplingRate and binSize, getFilterParameter returns 0.0 and does not   *)
(* call getMagnitudeFactor.                                                *)
(***************************************************************************)
C9_FilterAlwaysZero ==
    probe.fn = "getFilterParameter" /\ ~probe.pending =>
        /\ probe.prev = probe.next
        /\ probe.this < probe.next
        /\ probe.branch \in {0, 1, 4}
        /\ ~probe.calledMagnitude
        /\ probe.divisors = {}
        /\ probe.out = 0

\* A bin whose frequency lies between the band's centre and the next one,
\* where a triangular filter would respond.
C9_Witness ==
    /\ probe.fn = "getFilterParameter" /\ ~probe.pending
    /\ probe.filterBand >= 1
    /\ probe.boundary > probe.this
    /\ probe.boundary < probe.next

=============================================================================
